---- MODULE Spec2Model ----
(***************************************************************************)
(* Model of the database-backed metric storage (package dbstorage) and of  *)
(* its retry loop.  The relational engine is modelled by what the SQL of   *)
(* the schema and of the three prepared statements does to the table       *)
(* "metrics"; every Store call runs on its caller's goroutine, so several  *)
(* callers interleave at statement executions and at sleeps.               *)
(***************************************************************************)
EXTENDS Integers, Sequences, FiniteSets, TLC

\* ------------------------------------------------------------- bounds
\* Concurrent callers (request goroutines).
NumCallers == 2
\* Store calls started in one behaviour (caps the ghost sums).
MaxCalls == 3
\* Largest BIGINT the engine stores in this model; the column is a signed
\* 64-bit integer, scaled down so that the out-of-range case is reachable.
MaxBigInt == 3
\* Times the database becomes unreachable in one behaviour.
MaxOutages == 1
\* Wrapping layers (fmt.Errorf with %w) around an error handed to the classifier.
MaxWrap == 2
\* Update requests served in one behaviour.
MaxRequests == 2

Callers == 1..NumCallers
Names == {"a", "b"}
\* Go pointers: nil is the empty sequence, a pointer to v is <<v>>.
NilPtr == <<>>
Ptr(v) == <<v>>
\* Arguments of AddCounter (*int64) and SetGauge (*float64).
CounterArgs == {NilPtr, Ptr(1), Ptr(2)}
GaugeArgs == {NilPtr, Ptr(1), Ptr(2)}

\* ------------------------------------------------------------- errors
\* An error is its chain of wrapped errors, outermost first; nil is <<>>.
NilErr == <<>>
Layer(t, c) == [type |-> t, code |-> c]
\* Transport fault as the driver reports it: a connect error wrapping net.OpError.
OpError == <<Layer("pgconn.connectError", ""), Layer("net.OpError", "")>>
PgError(code) == <<Layer("pgconn.PgError", code)>>
ErrNoRows == <<Layer("sql.ErrNoRows", "")>>
ConnectionFailure == PgError("08006")
NotNullViolation == PgError("23502")
NumericValueOutOfRange == PgError("22003")
UndefinedTable == PgError("42P01")

\* errors.As: the first error of the chain that has the type, or <<>>.
RECURSIVE ErrorsAs(_, _)
ErrorsAs(err, t) ==
  IF err = <<>> THEN <<>>
  ELSE IF Head(err).type = t THEN <<Head(err)>>
  ELSE ErrorsAs(Tail(err), t)

\* pgerrcode.IsConnectionException: SQLSTATE class 08.
IsConnectionException(code) ==
  code \in {"08000", "08003", "08006", "08001", "08004", "08007", "08P01"}

\* The classifier without the SQLSTATE test: every engine error is retried.
parseRetriableErrorAnyPgError(err) ==
  IF err = NilErr THEN [ok |-> FALSE, detail |-> <<>>]
  ELSE IF ErrorsAs(err, "net.OpError") # <<>>
    THEN [ok |-> TRUE, detail |-> <<"net.OpError">>]
  ELSE IF ErrorsAs(err, "pgconn.PgError") = <<>>
    THEN [ok |-> FALSE, detail |-> <<>>]
  ELSE [ok |-> TRUE, detail |-> <<"pgconn.PgError">>]

\* The classifier with a type assertion on the error itself in place of
\* errors.As: wrapped errors are not looked into.
parseRetriableErrorNoUnwrap(err) ==
  IF err = NilErr THEN [ok |-> FALSE, detail |-> <<>>]
  ELSE IF Head(err).type = "net.OpError"
    THEN [ok |-> TRUE, detail |-> <<"net.OpError">>]
  ELSE IF Head(err).type # "pgconn.PgError" \/ ~IsConnectionException(Head(err).code)
    THEN [ok |-> FALSE, detail |-> <<>>]
  ELSE [ok |-> TRUE, detail |-> <<"pgconn.PgError">>]

parseRetriableError(err) ==
  IF err = NilErr THEN [ok |-> FALSE, detail |-> <<>>]
  ELSE IF ErrorsAs(err, "net.OpError") # <<>>
    THEN [ok |-> TRUE, detail |-> <<"net.OpError">>]
  ELSE IF ErrorsAs(err, "pgconn.PgError") = <<>>
          \/ ~IsConnectionException(ErrorsAs(err, "pgconn.PgError")[1].code)
    THEN [ok |-> FALSE, detail |-> <<>>]
  ELSE [ok |-> TRUE, detail |-> <<"pgconn.PgError">>]

\* ------------------------------------------------------------- schedule
maximumNumberOfRetries == <<1, 3, 5>>

RECURSIVE SumFirst(_, _)
SumFirst(s, k) == IF k = 0 THEN 0 ELSE s[k] + SumFirst(s, k - 1)

\* ------------------------------------------------------------- engine
\* SQL values are nullable: NULL is <<>>, a value v is <<v>>.
NULL == <<>>
InBigInt(x) == x >= -MaxBigInt - 1 /\ x <= MaxBigInt

Row(name, mtype, delta, value) ==
  [name |-> name, mtype |-> mtype, delta |-> delta, value |-> value]

\* The arbiter of a constraint UNIQUE (name): the kind is not part of the key.
ConflictByName(t, name, mtype) ==
  {i \in DOMAIN t : t[i].name = name}

\* Rows whose (name, mtype) equals the proposed row's: the arbiter of
\* ON CONFLICT (name, mtype), i.e. CONSTRAINT unique_id_mtype UNIQUE (name, mtype).
Conflict(t, name, mtype) ==
  {i \in DOMAIN t : t[i].name = name /\ t[i].mtype = mtype}

Min(S) == CHOOSE x \in S : \A y \in S : x <= y

\* The upsert with SET delta = excluded.delta: the increment replaces the sum.
setOrUpdateMetricNoMerge(t, name, mtype, delta, value) ==
  IF delta = NULL \/ value = NULL
    THEN [err |-> NotNullViolation, table |-> t]
  ELSE IF Conflict(t, name, mtype) = {}
    THEN [err |-> NilErr, table |-> Append(t, Row(name, mtype, delta[1], value[1]))]
  ELSE LET i == Min(Conflict(t, name, mtype))
       IN [err |-> NilErr,
           table |-> [t EXCEPT ![i].delta = delta[1], ![i].value = value[1]]]

\* The upsert without value = excluded.value: the first value written stays.
setOrUpdateMetricKeepValue(t, name, mtype, delta, value) ==
  IF delta = NULL \/ value = NULL
    THEN [err |-> NotNullViolation, table |-> t]
  ELSE IF Conflict(t, name, mtype) = {}
    THEN [err |-> NilErr, table |-> Append(t, Row(name, mtype, delta[1], value[1]))]
  ELSE LET i == Min(Conflict(t, name, mtype))
           sum == t[i].delta + delta[1]
       IN IF ~InBigInt(sum)
            THEN [err |-> NumericValueOutOfRange, table |-> t]
            ELSE [err |-> NilErr, table |-> [t EXCEPT ![i].delta = sum]]

\* INSERT INTO metrics ... ON CONFLICT (name, mtype) DO UPDATE SET
\* delta = metrics.delta + excluded.delta, value = excluded.value
setOrUpdateMetric(t, name, mtype, delta, value) ==
  IF delta = NULL \/ value = NULL
    THEN [err |-> NotNullViolation, table |-> t]
  ELSE IF Conflict(t, name, mtype) = {}
    THEN [err |-> NilErr, table |-> Append(t, Row(name, mtype, delta[1], value[1]))]
  ELSE LET i == Min(Conflict(t, name, mtype))
           sum == t[i].delta + delta[1]
       IN IF ~InBigInt(sum)
            THEN [err |-> NumericValueOutOfRange, table |-> t]
            ELSE [err |-> NilErr,
                  table |-> [t EXCEPT ![i].delta = sum, ![i].value = value[1]]]

\* SELECT value FROM metrics WHERE name = :name AND mtype = 'gauge'
getGaugeMetric(t, name) ==
  LET S == {i \in DOMAIN t : t[i].name = name /\ t[i].mtype = "gauge"}
  IN IF S = {} THEN <<>> ELSE <<t[Min(S)].value>>

\* SELECT delta FROM metrics WHERE name = :name AND mtype = 'counter'
getCounterMetric(t, name) ==
  LET S == {i \in DOMAIN t : t[i].name = name /\ t[i].mtype = "counter"}
  IN IF S = {} THEN <<>> ELSE <<t[Min(S)].delta>>

\* sqlx GetContext: scans the first row into dest; no row is sql.ErrNoRows
\* and leaves dest as it was.
GetContext(found, dest) ==
  IF found = <<>> THEN [err |-> ErrNoRows, value |-> dest]
  ELSE [err |-> NilErr, value |-> Ptr(found[1])]

\* ------------------------------------------------------------- state
VARIABLES
  dbUp,         \* the database answers on the network
  downErr,      \* what a database call fails with while it is unreachable
  outages,      \* times the database has become unreachable
  tableExists,  \* relation "metrics" exists in the database
  metrics,      \* rows of the relation, in insertion order
  newPc,        \* position of New: "ping", "ddl", "prepares", "returned"
  newRet,       \* what New returned: "none" (not yet), "store", "nil"
  newErr,       \* the error New returned
  prepares,     \* statements assigned in dbStorage.prepares (others are nil)
  boot,         \* database calls New has made, in order
  call,         \* per caller: the Store call it is running; its field expect is
                \* what lastSetOk / sumRet promised when its read was answered
  calls,        \* Store calls started so far
  sumRet,       \* per name: sum of the deltas of AddCounter calls that returned nil
  addFault,     \* per name: an AddCounter attempt has ended in an error
  addErr,       \* per name: an AddCounter call has returned an error or panicked
  lastSetOk,    \* per name: value of the latest SetGauge that returned nil, <<>> when
                \* a gauge write was applied since by a call that did not
  schedule,     \* the package variable maximumNumberOfRetries
  closePc,      \* Close: "open" (not called), "closed" (returned), "panic"
  released,     \* releases Close has attempted, in order, each with its error
  closeRet,     \* the error Close returned
  clsIn,        \* an error handed to parseRetriableError
  clsOut,       \* what parseRetriableError returned for it, <<>> before the call
  req,          \* per caller: the update request its handler is serving
  reqs          \* update requests received so far

vars == <<dbUp, downErr, outages, tableExists, metrics, newPc, newRet, newErr, prepares, boot,
          call, calls, sumRet, addFault, addErr, lastSetOk,
          schedule, closePc, released, closeRet, clsIn, clsOut,
          req, reqs>>
dbVars == <<dbUp, downErr, outages, tableExists, metrics>>
newVars == <<newPc, newRet, newErr, prepares, boot>>
ghostVars == <<sumRet, addFault, addErr, lastSetOk>>
closeVars == <<closePc, released, closeRet>>
clsVars == <<clsIn, clsOut>>
reqVars == <<req, reqs>>

StmtNames == {"getGaugeMetric", "getCounterMetric", "setOrUpdateMetric"}

\* A caller that runs no Store call.
Idle ==
  [op |-> "none", name |-> "", arg |-> NilPtr, pc |-> "idle", i |-> 1,
   err |-> NilErr, value |-> NilPtr, rows |-> <<>>, attempts |-> 0,
   applied |-> 0, last |-> NilErr, slept |-> 0, expect |-> <<>>]

\* An entry that finds the loop position where earlier calls left it: at
\* the last element of the schedule.
EnterStale(op, name, arg) ==
  [Idle EXCEPT !.op = op, !.name = name, !.arg = arg, !.pc = "exec",
               !.i = Len(maximumNumberOfRetries)]

\* Entry of a Store call: named results are zero, the range loop is at its
\* first element.
Enter(op, name, arg) ==
  [Idle EXCEPT !.op = op, !.name = name, !.arg = arg, !.pc = "exec"]

InitStore ==
  /\ dbUp \in BOOLEAN
  /\ downErr \in IF dbUp THEN {OpError} ELSE {OpError, ConnectionFailure}
  /\ outages = IF dbUp THEN 0 ELSE 1
  /\ tableExists = FALSE
  /\ metrics = <<>>
  /\ newPc = "ping"
  /\ newRet = "none"
  /\ newErr = NilErr
  /\ prepares = {}
  /\ boot = <<>>
  /\ call = [p \in Callers |-> Idle]
  /\ calls = 0
  /\ sumRet = [n \in Names |-> 0]
  /\ addFault = [n \in Names |-> FALSE]
  /\ addErr = [n \in Names |-> FALSE]
  /\ lastSetOk = [n \in Names |-> <<>>]
  /\ schedule = maximumNumberOfRetries
  /\ closePc = "open"
  /\ released = <<>>
  /\ closeRet = NilErr

\* A handler goroutine that serves no request.  prev, others are history:
\* the counter of the name when the request arrived, and the increments
\* other requests had applied to it since, up to this request's read.
NoRequest ==
  [h |-> "none", pc |-> "idle", ctypeOk |-> TRUE, bind |-> 0, name |-> "",
   mtype |-> "", value |-> "", delta |-> NilPtr, status |-> 0,
   respDelta |-> NilPtr, stores |-> <<>>, werr |-> NilErr, wapplied |-> 0,
   rerr |-> NilErr, prev |-> 0, others |-> 0]

Init ==
  /\ InitStore
  /\ clsIn = NilErr
  /\ clsOut = <<>>
  /\ req = [p \in Callers |-> NoRequest]
  /\ reqs = 0

\* ------------------------------------------------------------- environment
DbDown ==
  /\ dbUp
  /\ outages < MaxOutages
  /\ dbUp' = FALSE
  /\ downErr' \in {OpError, ConnectionFailure}
  /\ outages' = outages + 1
  /\ UNCHANGED <<tableExists, metrics, newVars, call, calls, ghostVars>>

DbBack ==
  /\ ~dbUp
  /\ dbUp' = TRUE
  /\ downErr' = OpError
  /\ UNCHANGED <<outages, tableExists, metrics, newVars, call, calls, ghostVars>>

\* ------------------------------------------------------------- New
\* A New that gives up when the ping fails: return nil, err.
NewPingFatal ==
  /\ newPc = "ping"
  /\ boot' = Append(boot, "ping")
  /\ IF dbUp
       THEN /\ newPc' = "ddl"
            /\ UNCHANGED <<newRet, newErr>>
       ELSE /\ newPc' = "returned"
            /\ newRet' = "nil"
            /\ newErr' = downErr
  /\ UNCHANGED <<dbVars, prepares, call, calls, ghostVars>>

\* dbStorage.Ping(ctx) fails: log, return dbStorage, nil.  Otherwise go on to the DDL.
NewPing ==
  /\ newPc = "ping"
  /\ boot' = Append(boot, "ping")
  /\ IF dbUp
       THEN /\ newPc' = "ddl"
            /\ UNCHANGED <<newRet, newErr>>
       ELSE /\ newPc' = "returned"
            /\ newRet' = "store"
            /\ newErr' = NilErr
  /\ UNCHANGED <<dbVars, prepares, call, calls, ghostVars>>

\* db.ExecContext(ctx, schema): CREATE TABLE IF NOT EXISTS; an error returns nil, err.
NewSchema ==
  /\ newPc = "ddl"
  /\ boot' = Append(boot, "ddl")
  /\ IF dbUp
       THEN /\ tableExists' = TRUE
            /\ newPc' = "prepares"
            /\ UNCHANGED <<newRet, newErr>>
       ELSE /\ newPc' = "returned"
            /\ newRet' = "nil"
            /\ newErr' = downErr
            /\ UNCHANGED tableExists
  /\ UNCHANGED <<dbUp, downErr, outages, metrics, prepares, call, calls, ghostVars>>

\* One iteration of the range over preparesData (map order is not fixed):
\* PrepareNamedContext, then the assignment; an error returns it, and New nil, err.
\* After the last one buildPrepares returns nil and New returns dbStorage, nil.
buildPrepares ==
  /\ newPc = "prepares"
  /\ \E key \in StmtNames \ prepares :
       /\ boot' = Append(boot, "prepare")
       /\ IF dbUp
            THEN /\ prepares' = prepares \cup {key}
                 /\ IF prepares' = StmtNames
                      THEN /\ newPc' = "returned"
                           /\ newRet' = "store"
                      ELSE UNCHANGED <<newPc, newRet>>
                 /\ UNCHANGED newErr
            ELSE /\ newPc' = "returned"
                 /\ newRet' = "nil"
                 /\ newErr' = downErr
                 /\ UNCHANGED prepares
  /\ UNCHANGED <<dbVars, call, calls, ghostVars>>

\* ------------------------------------------------------------- Store calls
\* A caller invokes one of the Store operations on the store New returned.
Begin(p) ==
  /\ newRet = "store"
  /\ closePc = "open"
  /\ call[p].pc \in {"idle", "done"}
  /\ calls < MaxCalls
  /\ calls' = calls + 1
  /\ \/ \E n \in Names, v \in GaugeArgs :
          call' = [call EXCEPT ![p] = Enter("SetGauge", n, v)]
     \/ \E n \in Names, d \in CounterArgs :
          call' = [call EXCEPT ![p] = Enter("AddCounter", n, d)]
     \/ \E n \in Names, op \in {"GetGauge", "GetCounter"} :
          call' = [call EXCEPT ![p] = Enter(op, n, NilPtr)]
     \/ call' = [call EXCEPT ![p] = Enter("GetAll", "", NilPtr)]
  /\ UNCHANGED <<dbVars, newVars, ghostVars>>

\* What the engine does with the statement of call c when it receives it:
\* its error, the table afterwards, and the rows it sends back.
Engine(c, t, exists) ==
  IF ~exists THEN [err |-> UndefinedTable, table |-> t, found |-> <<>>]
  ELSE IF c.op = "SetGauge"
    THEN LET r == setOrUpdateMetric(t, c.name, "gauge", Ptr(0), c.arg)
         IN [err |-> r.err, table |-> r.table, found |-> <<>>]
  ELSE IF c.op = "AddCounter"
    THEN LET r == setOrUpdateMetric(t, c.name, "counter", c.arg, Ptr(0))
         IN [err |-> r.err, table |-> r.table, found |-> <<>>]
  ELSE IF c.op = "GetGauge"
    THEN [err |-> NilErr, table |-> t, found |-> getGaugeMetric(t, c.name)]
  ELSE IF c.op = "GetCounter"
    THEN [err |-> NilErr, table |-> t, found |-> getCounterMetric(t, c.name)]
  ELSE [err |-> NilErr, table |-> t, found |-> t]

\* A client that drops the error of a write: _, _ = ExecContext(...).
ReplyDropErr(c, r) ==
  IF c.op \in {"SetGauge", "AddCounter"}
    THEN [err |-> NilErr, value |-> c.value, rows |-> c.rows]
  ELSE IF r.err # NilErr THEN [err |-> r.err, value |-> c.value, rows |-> c.rows]
  ELSE IF c.op \in {"GetGauge", "GetCounter"}
    THEN LET g == GetContext(r.found, c.value)
         IN [err |-> g.err, value |-> g.value, rows |-> c.rows]
  ELSE [err |-> NilErr, value |-> c.value, rows |-> r.found]

\* What the client makes of an acknowledged reply: the call's err and results.
Reply(c, r) ==
  IF r.err # NilErr THEN [err |-> r.err, value |-> c.value, rows |-> c.rows]
  ELSE IF c.op \in {"GetGauge", "GetCounter"}
    THEN LET g == GetContext(r.found, c.value)
         IN [err |-> g.err, value |-> g.value, rows |-> c.rows]
  ELSE IF c.op = "GetAll" THEN [err |-> NilErr, value |-> c.value, rows |-> r.found]
  ELSE [err |-> NilErr, value |-> c.value, rows |-> c.rows]

\* The loop body after the statement: err is assigned, parseRetriableError
\* decides between return (not ok) and log + sleep (ok).
AfterAttempt(c, err, value, rows, applied) ==
  [c EXCEPT !.err = err, !.value = value, !.rows = rows,
            !.attempts = @ + 1, !.last = err,
            !.applied = IF applied THEN @ + 1 ELSE @,
            !.pc = IF parseRetriableError(err).ok THEN "sleep" ELSE "done"]

\* The sleep of a loop that never leaves the schedule's last entry: it
\* retries for as long as the fault lasts.
AfterSleepNoBound(c) ==
  [c EXCEPT !.slept = @ + schedule[c.i],
            !.i = IF c.i < Len(schedule) THEN @ + 1 ELSE @,
            !.pc = "exec"]

\* time.Sleep(timeSleep), then the next element of the range, or, after the
\* last one, the return that follows the loop.
AfterSleep(c) ==
  [c EXCEPT !.slept = @ + schedule[c.i],
            !.i = IF c.i < Len(schedule) THEN @ + 1 ELSE @,
            !.pc = IF c.i < Len(schedule) THEN "exec" ELSE "done"]

\* Bookkeeping of an attempt of caller p that ended with err.
Finish(p, err, value, rows, applied) ==
  LET c == call[p]
      d == AfterAttempt(c, err, value, rows, applied)
  IN /\ call' = [call EXCEPT ![p] =
                   IF c.op = "GetGauge" /\ err = NilErr
                     THEN [d EXCEPT !.expect = lastSetOk[c.name]]
                   ELSE IF c.op = "GetCounter" /\ err = NilErr /\ ~addFault[c.name]
                     THEN [d EXCEPT !.expect = <<sumRet[c.name]>>]
                   ELSE d]
     /\ sumRet' = IF c.op = "AddCounter" /\ err = NilErr
                    THEN [sumRet EXCEPT ![c.name] = @ + c.arg[1]] ELSE sumRet
     /\ addFault' = IF c.op = "AddCounter" /\ err # NilErr
                      THEN [addFault EXCEPT ![c.name] = TRUE] ELSE addFault
     /\ addErr' = IF c.op = "AddCounter" /\ err # NilErr /\ d.pc = "done"
                    THEN [addErr EXCEPT ![c.name] = TRUE] ELSE addErr
     /\ lastSetOk' = IF c.op = "SetGauge" /\ applied
                       THEN [lastSetOk EXCEPT ![c.name] =
                               IF err = NilErr THEN c.arg ELSE <<>>]
                       ELSE lastSetOk

\* One pass of the loop body of a Store operation up to the decision of
\* parseRetriableError.  stmt is the prepared statement it calls, "db" for
\* a query on the pool itself.  A method call on a nil *sqlx.NamedStmt
\* dereferences nil: the goroutine panics.
Attempt(p, stmt) ==
  LET c == call[p]
  IN /\ c.pc = "exec"
     /\ IF stmt \in StmtNames /\ stmt \notin prepares
          THEN /\ call' = [call EXCEPT ![p].pc = "panic"]
               /\ addErr' = IF c.op = "AddCounter"
                              THEN [addErr EXCEPT ![c.name] = TRUE] ELSE addErr
               /\ UNCHANGED <<dbVars, sumRet, addFault, lastSetOk>>
          ELSE \/ /\ ~dbUp
                  /\ Finish(p, downErr, c.value, c.rows, FALSE)
                  /\ UNCHANGED dbVars
               \/ /\ dbUp
                  /\ LET r == Engine(c, metrics, tableExists)
                         a == Reply(c, r)
                     IN /\ metrics' = r.table
                        /\ \/ /\ Finish(p, a.err, a.value, a.rows, r.err = NilErr)
                              /\ UNCHANGED <<dbUp, downErr, outages>>
                           \* the connection breaks before the reply arrives
                           \/ /\ outages < MaxOutages
                              /\ Finish(p, OpError, c.value, c.rows, r.err = NilErr)
                              /\ dbUp' = FALSE
                              /\ downErr' = OpError
                              /\ outages' = outages + 1
                  /\ UNCHANGED tableExists
     /\ UNCHANGED <<newVars, calls>>

SetGauge(p) == call[p].op = "SetGauge" /\ Attempt(p, "setOrUpdateMetric")

AddCounter(p) == call[p].op = "AddCounter" /\ Attempt(p, "setOrUpdateMetric")

GetGauge(p) == call[p].op = "GetGauge" /\ Attempt(p, "getGaugeMetric")

GetCounter(p) == call[p].op = "GetCounter" /\ Attempt(p, "getCounterMetric")

GetAll(p) == call[p].op = "GetAll" /\ Attempt(p, "db")

\* The time.Sleep at the end of the loop body of any of the five operations.
Sleep(p) ==
  LET c == call[p]
  IN /\ c.pc = "sleep"
     /\ call' = [call EXCEPT ![p] = AfterSleep(c)]
     /\ addErr' = IF c.op = "AddCounter" /\ AfterSleep(c).pc = "done"
                    THEN [addErr EXCEPT ![c.name] = TRUE] ELSE addErr
     /\ UNCHANGED <<dbVars, newVars, calls, sumRet, addFault, lastSetOk>>

\* What the actions above never touch.
restVars == <<schedule, closeVars, clsVars, reqVars>>

Next ==
  \/ DbDown /\ UNCHANGED restVars
  \/ DbBack /\ UNCHANGED restVars
  \/ NewPing /\ UNCHANGED restVars
  \/ NewSchema /\ UNCHANGED restVars
  \/ buildPrepares /\ UNCHANGED restVars
  \/ \E p \in Callers : Begin(p) /\ UNCHANGED restVars
  \/ \E p \in Callers : SetGauge(p) /\ UNCHANGED restVars
  \/ \E p \in Callers : AddCounter(p) /\ UNCHANGED restVars
  \/ \E p \in Callers : GetGauge(p) /\ UNCHANGED restVars
  \/ \E p \in Callers : GetCounter(p) /\ UNCHANGED restVars
  \/ \E p \in Callers : GetAll(p) /\ UNCHANGED restVars
  \/ \E p \in Callers : Sleep(p) /\ UNCHANGED restVars

Spec == Init /\ [][Next]_vars

\* ------------------------------------------------------------- lifecycle
\* Ping and String are not retried: one database call, then the return.
BeginProbe(p) ==
  /\ newRet = "store"
  /\ closePc = "open"
  /\ call[p].pc \in {"idle", "done"}
  /\ calls < MaxCalls
  /\ calls' = calls + 1
  /\ \E op \in {"Ping", "String"} :
       call' = [call EXCEPT ![p] = Enter(op, "", NilPtr)]
  /\ UNCHANGED <<dbVars, newVars, ghostVars>>

\* A Ping that prepares the statements once the database answers.
PingRebuild(p) ==
  LET c == call[p]
  IN /\ c.op = "Ping" /\ c.pc = "exec"
     /\ call' = [call EXCEPT ![p] =
                   [c EXCEPT !.err = IF dbUp THEN NilErr ELSE downErr,
                             !.pc = "done"]]
     /\ prepares' = IF dbUp THEN StmtNames ELSE prepares
     /\ UNCHANGED <<dbVars, newPc, newRet, newErr, boot, calls, ghostVars>>

\* return dbStorage.db.PingContext(ctx)
Ping(p) ==
  LET c == call[p]
  IN /\ c.op = "Ping" /\ c.pc = "exec"
     /\ call' = [call EXCEPT ![p] =
                   [c EXCEPT !.err = IF dbUp THEN NilErr ELSE downErr,
                             !.pc = "done"]]
     /\ UNCHANGED <<dbVars, newVars, calls, ghostVars>>

\* db.Get(&databaseName, "SELECT current_database()") with its error dropped;
\* an empty name becomes the placeholder.  The label is returned in rows.
String(p) ==
  LET c == call[p]
      databaseName == IF dbUp THEN "metrics" ELSE ""
  IN /\ c.op = "String" /\ c.pc = "exec"
     /\ call' = [call EXCEPT ![p] =
                   [c EXCEPT !.rows =
                               IF databaseName = ""
                                 THEN <<"DBStorage - ", "(Error: Invalid database name)">>
                                 ELSE <<"DBStorage - ", databaseName>>,
                             !.pc = "done"]]
     /\ UNCHANGED <<dbVars, newVars, calls, ghostVars>>

\* What Close releases, in the order of its four appends.
Resources == <<"getGaugeMetric", "getCounterMetric", "setOrUpdateMetric", "db">>
CloseErr(res) == <<Layer("close", res)>>

\* errors.Join: nil when every error is nil, else the non-nil errors in order.
RECURSIVE Join(_)
Join(errs) ==
  IF errs = <<>> THEN <<>>
  ELSE errs[1] \o Join(Tail(errs))

\* Close at shutdown, when no Store call is running.  Each release may fail;
\* its error is appended whatever the earlier ones returned.  Close on a
\* nil *sqlx.NamedStmt dereferences nil: Close panics at the first append.
Close ==
  /\ newRet = "store"
  /\ closePc = "open"
  /\ \A p \in Callers : call[p].pc \notin {"exec", "sleep"}
  /\ IF Resources[1] \notin prepares
       THEN /\ closePc' = "panic"
            /\ UNCHANGED <<released, closeRet>>
       ELSE \E failing \in SUBSET {"getGaugeMetric", "getCounterMetric", "setOrUpdateMetric", "db"} :
              LET closeErrs ==
                    [k \in DOMAIN Resources |->
                       IF Resources[k] \in failing THEN CloseErr(Resources[k]) ELSE NilErr]
              IN /\ released' = [k \in DOMAIN Resources |->
                                   [res |-> Resources[k], err |-> closeErrs[k]]]
                 /\ closeRet' = Join(closeErrs)
                 /\ closePc' = "closed"
  /\ UNCHANGED <<dbVars, newVars, call, calls, ghostVars, schedule>>

\* The store from construction to shutdown, used by one caller at a time.
LifeCallers == {1}

NextLife ==
  \/ DbDown /\ UNCHANGED restVars
  \/ DbBack /\ UNCHANGED restVars
  \/ NewPing /\ UNCHANGED restVars
  \/ NewSchema /\ UNCHANGED restVars
  \/ buildPrepares /\ UNCHANGED restVars
  \/ \E p \in LifeCallers : Begin(p) /\ UNCHANGED restVars
  \/ \E p \in LifeCallers : BeginProbe(p) /\ UNCHANGED restVars
  \/ \E p \in LifeCallers : SetGauge(p) /\ UNCHANGED restVars
  \/ \E p \in LifeCallers : AddCounter(p) /\ UNCHANGED restVars
  \/ \E p \in LifeCallers : GetGauge(p) /\ UNCHANGED restVars
  \/ \E p \in LifeCallers : GetCounter(p) /\ UNCHANGED restVars
  \/ \E p \in LifeCallers : GetAll(p) /\ UNCHANGED restVars
  \/ \E p \in LifeCallers : Sleep(p) /\ UNCHANGED restVars
  \/ \E p \in LifeCallers : Ping(p) /\ UNCHANGED restVars
  \/ \E p \in LifeCallers : String(p) /\ UNCHANGED restVars
  \/ Close /\ UNCHANGED <<clsVars, reqVars>>

SpecLife == Init /\ [][NextLife]_vars

\* ------------------------------------------------------------- classification
\* SQLSTATE codes an engine error may carry: class 08 and some others
\* (constraint violation, out of range, undefined table, syntax error,
\* admin shutdown).
SqlStates ==
  {"08000", "08003", "08006", "08001", "08004", "08007", "08P01",
   "23502", "22003", "42P01", "42601", "57P01"}

\* Errors as the driver returns them.  A *pgconn.PgError wraps nothing; a
\* *net.OpError may wrap the system call's error.
DriverErrors ==
  {PgError(c) : c \in SqlStates}
    \cup {ErrNoRows, OpError,
          <<Layer("context.deadlineExceededError", "")>>,
          <<Layer("net.OpError", "")>>,
          <<Layer("net.OpError", ""), Layer("os.SyscallError", "")>>}

\* fmt.Errorf("...: %w", err), k times.
RECURSIVE Wrap(_, _)
Wrap(k, err) ==
  IF k = 0 THEN err ELSE <<Layer("fmt.wrapError", "")>> \o Wrap(k - 1, err)

ErrorChains ==
  {NilErr} \cup {Wrap(k, e) : k \in 0..MaxWrap, e \in DriverErrors}

InitClassify ==
  /\ InitStore
  /\ clsIn \in ErrorChains
  /\ clsOut = <<>>
  /\ req = [p \in Callers |-> NoRequest]
  /\ reqs = 0

\* ok, parsedErr := parseRetriableError(err)
Classify ==
  /\ clsOut = <<>>
  /\ clsOut' = <<parseRetriableError(clsIn)>>
  /\ UNCHANGED <<dbVars, newVars, call, calls, ghostVars, schedule, closeVars, clsIn,
               reqVars>>

NextClassify == Classify

SpecClassify == InitClassify /\ [][NextClassify]_vars

\* ------------------------------------------------------------- update handlers
\* Values of the :value path parameter.
Tokens == {"1", "2", "1e0", "x"}

\* strconv.ParseFloat(s, 64) on the tokens.
ParseFloat(s) ==
  IF s \in {"1", "1e0"} THEN [ok |-> TRUE, v |-> 1]
  ELSE IF s = "2" THEN [ok |-> TRUE, v |-> 2]
  ELSE [ok |-> FALSE, v |-> 0]

\* A counter value parsed as a float and truncated.
ParseIntAsFloat(s) == ParseFloat(s)

\* strconv.ParseInt(s, 0, 64) on the tokens: no exponent in an integer.
ParseInt(s) ==
  IF s = "1" THEN [ok |-> TRUE, v |-> 1]
  ELSE IF s = "2" THEN [ok |-> TRUE, v |-> 2]
  ELSE [ok |-> FALSE, v |-> 0]

StatusOK == 200
StatusNotFound == 404

\* The handler responds and aborts the chain.
Respond(r, status) == [r EXCEPT !.status = status, !.pc = "responded"]

\* bh.handleBadRequest(ctx): responds 400.
handleBadRequest(r) == Respond(r, 400)

\* The handler of caller p returns without a Store call.
Return(p, r) ==
  /\ req' = [req EXCEPT ![p] = r]
  /\ UNCHANGED <<call, calls>>

\* The handler of caller p calls a Store operation; the Store takes a
\* pointer to the value.
Storage(p, r, op, name, arg) ==
  /\ req' = [req EXCEPT ![p] = [r EXCEPT !.stores = Append(@, <<op, name, arg>>)]]
  /\ call' = [call EXCEPT ![p] = Enter(op, name, arg)]
  /\ calls' = calls + 1

\* A request arrives at a handler of the running server.
Arrive(p) ==
  /\ newRet = "store"
  /\ closePc = "open"
  /\ req[p].pc \in {"idle", "responded"}
  /\ call[p].pc \in {"idle", "done"}
  /\ reqs < MaxRequests
  /\ reqs' = reqs + 1

\* The counter row of a name as a number, 0 when there is none.
Stored(name) ==
  LET f == getCounterMetric(metrics, name)
  IN IF f = <<>> THEN 0 ELSE f[1]

\* UpdateByURI up to its Store call or its early return.
UpdateByURIRequest(p) ==
  /\ Arrive(p)
  /\ \E ct \in BOOLEAN, n \in {"", "a"}, t \in {"gauge", "counter", "other"},
        v \in Tokens :
       LET r == [NoRequest EXCEPT !.h = "UpdateByURI", !.ctypeOk = ct,
                                  !.name = n, !.mtype = t, !.value = v]
       IN IF ~ct THEN Return(p, handleBadRequest(r))
          ELSE IF n = "" THEN Return(p, Respond(r, StatusNotFound))
          ELSE IF t = "gauge"
            THEN IF ~ParseFloat(v).ok THEN Return(p, handleBadRequest(r))
                 ELSE Storage(p, [r EXCEPT !.pc = "write"],
                              "SetGauge", n, Ptr(ParseFloat(v).v))
          ELSE IF t = "counter"
            THEN IF ~ParseInt(v).ok THEN Return(p, handleBadRequest(r))
                 ELSE Storage(p, [r EXCEPT !.pc = "write"],
                              "AddCounter", n, Ptr(ParseInt(v).v))
          ELSE Return(p, handleBadRequest(r))
  /\ UNCHANGED <<dbVars, newVars, ghostVars>>

\* UpdateByURI after the Store call: its result is discarded.
UpdateByURIReturn(p) ==
  /\ req[p].h = "UpdateByURI"
  /\ req[p].pc = "write"
  /\ call[p].pc = "done"
  /\ Return(p, [Respond(req[p], StatusOK) EXCEPT !.werr = call[p].err,
                                                !.wapplied = call[p].applied])
  /\ UNCHANGED <<dbVars, newVars, ghostVars, reqs>>

UpdateByURI(p) == UpdateByURIRequest(p) \/ UpdateByURIReturn(p)

\* UpdateByBody up to its first Store call or its early return.  A bound
\* object has type gauge with a value or type counter with a delta.
UpdateByBodyRequest(p) ==
  /\ Arrive(p)
  /\ \E ct \in BOOLEAN, b \in {0, 400, 500}, t \in {"gauge", "counter"},
        v \in {1, 2} :
       LET r == [NoRequest EXCEPT !.h = "UpdateByBody", !.ctypeOk = ct,
                                  !.bind = b, !.name = "a", !.mtype = t,
                                  !.delta = Ptr(v), !.respDelta = Ptr(v),
                                  !.prev = Stored("a")]
       IN IF ~ct THEN Return(p, handleBadRequest(r))
          ELSE IF b # 0 THEN Return(p, Respond(r, b))
          ELSE IF t = "gauge"
            THEN Storage(p, [r EXCEPT !.pc = "write"], "SetGauge", "a", Ptr(v))
          ELSE Storage(p, [r EXCEPT !.pc = "write"], "AddCounter", "a", Ptr(v))
  /\ UNCHANGED <<dbVars, newVars, ghostVars>>

\* UpdateByBody after SetGauge / AddCounter: the result is discarded; a
\* counter update goes on to read the counter back.
UpdateByBodyWritten(p) ==
  LET r == [req[p] EXCEPT !.werr = call[p].err, !.wapplied = call[p].applied]
  IN /\ req[p].h = "UpdateByBody"
     /\ req[p].pc = "write"
     /\ call[p].pc = "done"
     /\ IF r.mtype = "gauge"
          THEN Return(p, Respond(r, StatusOK))
          ELSE Storage(p, [r EXCEPT !.pc = "read"], "GetCounter", r.name, NilPtr)
     /\ UNCHANGED <<dbVars, newVars, ghostVars, reqs>>

\* UpdateByBody after GetCounter: obj.Delta = &counter unless the read failed.
UpdateByBodyReturn(p) ==
  LET c == call[p]
  IN /\ req[p].h = "UpdateByBody"
     /\ req[p].pc = "read"
     /\ c.pc = "done"
     /\ Return(p, [Respond(req[p], StatusOK) EXCEPT
                      !.rerr = c.err,
                      !.respDelta = IF c.err = NilErr THEN c.value ELSE @])
     /\ UNCHANGED <<dbVars, newVars, ghostVars, reqs>>

UpdateByBody(p) ==
  UpdateByBodyRequest(p) \/ UpdateByBodyWritten(p) \/ UpdateByBodyReturn(p)

\* History kept with an AddCounter step of caller q: a first application
\* of its delta is noted in every other counter request on the name whose
\* read is still to be answered.
Applies(q) ==
  req' = [p \in Callers |->
            IF /\ p # q
               /\ call[q].applied = 0 /\ call'[q].applied = 1
               /\ req[p].h = "UpdateByBody" /\ req[p].mtype = "counter"
               /\ req[p].name = call[q].name
               /\ \/ req[p].pc = "write"
                  \/ req[p].pc = "read" /\ call[p].pc \in {"exec", "sleep"}
              THEN [req[p] EXCEPT !.others = @ + call[q].arg[1]]
              ELSE req[p]]

handlerRest == <<schedule, closeVars, clsVars>>

NextHandlers ==
  \/ DbDown /\ UNCHANGED restVars
  \/ DbBack /\ UNCHANGED restVars
  \/ NewPing /\ UNCHANGED restVars
  \/ NewSchema /\ UNCHANGED restVars
  \/ buildPrepares /\ UNCHANGED restVars
  \/ \E p \in Callers : UpdateByURI(p) /\ UNCHANGED handlerRest
  \/ \E p \in Callers : UpdateByBody(p) /\ UNCHANGED handlerRest
  \/ \E p \in Callers : SetGauge(p) /\ UNCHANGED restVars
  \/ \E p \in Callers : AddCounter(p) /\ Applies(p) /\ UNCHANGED <<handlerRest, reqs>>
  \/ \E p \in Callers : GetCounter(p) /\ UNCHANGED restVars
  \/ \E p \in Callers : Sleep(p) /\ UNCHANGED restVars

SpecHandlers == Init /\ [][NextHandlers]_vars

\* ------------------------------------------------------------- claims
Done(p) == call[p].pc = "done"

\* A connectivity fault, read off the error itself: a transport error
\* somewhere in the chain, or an engine error of SQLSTATE class 08.
ConnectivityFault(err) ==
  \E k \in DOMAIN err :
    \/ err[k].type = "net.OpError"
    \/ err[k].type = "pgconn.PgError" /\ IsConnectionException(err[k].code)

\* C1 (additive merge): as long as no AddCounter attempt on a name has ended
\* in an error, the counter row of the name holds the sum of the deltas of
\* the AddCounter calls that returned nil (no row when there was none), and
\* a GetCounter that returns nil returns that sum.
\* (Deltas are positive here, so a sum of 0 means no call has returned.)
C1_AdditiveMerge ==
  /\ \A n \in Names :
       ~addFault[n] =>
         getCounterMetric(metrics, n) = IF sumRet[n] = 0 THEN <<>> ELSE <<sumRet[n]>>
  /\ \A p \in Callers :
       (Done(p) /\ call[p].op = "GetCounter" /\ call[p].err = NilErr
          /\ call[p].expect # <<>>)
         => call[p].value = call[p].expect

\* Two AddCounter("a", .) calls with different deltas have returned nil, no
\* fault has occurred, and a GetCounter("a") has returned their sum 1 + 2.
C1_Witness ==
  /\ ~addFault["a"]
  /\ sumRet["a"] = 3
  /\ calls = 3
  /\ \E p \in Callers :
       /\ Done(p) /\ call[p].op = "GetCounter" /\ call[p].name = "a"
       /\ call[p].err = NilErr /\ call[p].value = <<3>>

\* C2 (last write wins): after a SetGauge(n, v) has returned nil, and until
\* another gauge write on n is applied, the gauge row of n holds v, and a
\* GetGauge(n) that returns nil returns v, whatever the row held before.
C2_LastWriteWins ==
  /\ \A n \in Names :
       lastSetOk[n] # <<>> => getGaugeMetric(metrics, n) = lastSetOk[n]
  /\ \A p \in Callers :
       (Done(p) /\ call[p].op = "GetGauge" /\ call[p].err = NilErr
          /\ call[p].expect # <<>>)
         => call[p].value = call[p].expect

\* SetGauge("a", 1) then SetGauge("a", 2) have returned nil (the second one
\* last) and the row holds 2.
C2_Witness ==
  /\ \E p, q \in Callers :
       /\ p # q /\ Done(p) /\ Done(q)
       /\ call[p].op = "SetGauge" /\ call[p].name = "a" /\ call[p].arg = Ptr(1)
       /\ call[p].err = NilErr
       /\ call[q].op = "SetGauge" /\ call[q].name = "a" /\ call[q].arg = Ptr(2)
       /\ call[q].err = NilErr
  /\ lastSetOk["a"] = Ptr(2)
  /\ getGaugeMetric(metrics, "a") = Ptr(2)

\* C3 (key independence): the table never holds two rows of one (name, kind);
\* no attempt of SetGauge changes what read-counter returns for any name, and
\* no attempt of AddCounter changes what read-gauge returns for any name.
C3_KeyIndependence ==
  /\ [](\A n \in Names, k \in {"gauge", "counter"} :
          Cardinality({i \in DOMAIN metrics :
                         metrics[i].name = n /\ metrics[i].mtype = k}) <= 1)
  /\ [][\A p \in Callers :
          (call[p].pc = "exec" /\ call'[p] # call[p]) =>
            /\ call[p].op = "SetGauge" =>
                 \A n \in Names :
                   getCounterMetric(metrics', n) = getCounterMetric(metrics, n)
            /\ call[p].op = "AddCounter" =>
                 \A n \in Names :
                   getGaugeMetric(metrics', n) = getGaugeMetric(metrics, n)]_vars

\* The name "a" has a gauge row and a counter row, both written by calls
\* that returned nil.
C3_Witness ==
  /\ getGaugeMetric(metrics, "a") # <<>>
  /\ getCounterMetric(metrics, "a") # <<>>
  /\ \E p, q \in Callers :
       /\ Done(p) /\ call[p].op = "SetGauge" /\ call[p].name = "a"
       /\ call[p].err = NilErr
       /\ Done(q) /\ call[q].op = "AddCounter" /\ call[q].name = "a"
       /\ call[q].err = NilErr

\* C4 (absence): a GetGauge / GetCounter whose attempts all reached the
\* engine, for a name that has no row of that kind, returns no value and a
\* nil error, after exactly one attempt and without sleeping.
C4_Absence ==
  \A p \in Callers :
    (/\ Done(p)
     /\ call[p].applied = call[p].attempts
     /\ \/ call[p].op = "GetGauge" /\ getGaugeMetric(metrics, call[p].name) = <<>>
        \/ call[p].op = "GetCounter" /\ getCounterMetric(metrics, call[p].name) = <<>>)
    => /\ call[p].value = NilPtr
       /\ call[p].err = NilErr
       /\ call[p].attempts = 1
       /\ call[p].slept = 0

\* C5 (retry bound): no call makes more than len(schedule) attempts; a call
\* that has returned after an attempt that failed with a connectivity fault
\* has made exactly len(schedule) attempts and returns that attempt's error.
C5_RetryBound ==
  \A p \in Callers :
    /\ call[p].attempts <= Len(maximumNumberOfRetries)
    /\ call[p].pc = "exec" => call[p].attempts < Len(maximumNumberOfRetries)
    /\ (Done(p) /\ ConnectivityFault(call[p].last)) =>
         /\ call[p].attempts = Len(maximumNumberOfRetries)
         /\ call[p].err = call[p].last

\* Two calls, a write and a GetAll, have both returned a connectivity fault
\* after three attempts none of which reached the engine.
C5_Witness ==
  \E p, q \in Callers :
    /\ Done(p) /\ call[p].op = "AddCounter" /\ call[p].attempts = 3
    /\ call[p].applied = 0 /\ ConnectivityFault(call[p].err)
    /\ Done(q) /\ call[q].op = "GetAll" /\ call[q].attempts = 3
    /\ ConnectivityFault(call[q].err)

\* C6 (backoff total): a call that has exhausted the schedule has slept for
\* the sum of all schedule entries but the last, 1 + 3 seconds.
C6_BackoffTotal ==
  \A p \in Callers :
    (Done(p) /\ call[p].attempts = Len(maximumNumberOfRetries)
       /\ ConnectivityFault(call[p].last))
    => call[p].slept =
         SumFirst(maximumNumberOfRetries, Len(maximumNumberOfRetries) - 1)

\* C7 (non-retriable short-circuit): after an attempt that ended in nil or
\* in an error that is no connectivity fault the call has returned, with
\* that very error, and has slept only after the attempts before it: not at
\* all when it was the first.
C7_ShortCircuit ==
  \A p \in Callers :
    (call[p].attempts >= 1 /\ ~ConnectivityFault(call[p].last)) =>
      /\ Done(p)
      /\ call[p].err = call[p].last
      /\ call[p].slept = SumFirst(maximumNumberOfRetries, call[p].attempts - 1)

\* A SetGauge has returned a not-null violation after one attempt and no
\* sleep, and a GetAll has returned nil on its second attempt.
C7_Witness ==
  \E p, q \in Callers :
    /\ Done(p) /\ call[p].op = "SetGauge" /\ call[p].err = NotNullViolation
    /\ call[p].attempts = 1 /\ call[p].slept = 0
    /\ Done(q) /\ call[q].op = "GetAll" /\ call[q].err = NilErr
    /\ call[q].attempts = 2

\* C8 (degraded construction): New returns a store and a nil error when the
\* ping fails, and a Store call on that store, made while the database is
\* still unreachable, ends by returning a connectivity fault after
\* len(schedule) attempts.
C8_DegradedConstruction ==
  /\ (newPc = "returned" /\ boot = <<"ping">>) =>
       (newRet = "store" /\ newErr = NilErr)
  /\ \A p \in Callers :
       (boot = <<"ping">> /\ ~dbUp /\ call[p].pc \in {"done", "panic"}) =>
         /\ Done(p)
         /\ ConnectivityFault(call[p].err)
         /\ call[p].attempts = Len(maximumNumberOfRetries)

\* C9 (no double application): the engine applies the statement of one
\* AddCounter call at most once, whatever faults the call meets.
C9_NoDoubleApplication ==
  \A p \in Callers :
    call[p].op = "AddCounter" => call[p].applied <= 1

\* C10 (concurrent increments commute): when two callers have run AddCounter
\* on one name, no AddCounter on it is still running and none has returned
\* an error, the counter of the name is the sum of all deltas.
C10_ConcurrentIncrements ==
  \A n \in Names :
    (/\ \E p, q \in Callers :
          /\ p # q /\ Done(p) /\ Done(q)
          /\ call[p].op = "AddCounter" /\ call[p].name = n
          /\ call[q].op = "AddCounter" /\ call[q].name = n
     /\ ~addErr[n]
     /\ \A p \in Callers :
          (call[p].op = "AddCounter" /\ call[p].name = n) => Done(p))
    => getCounterMetric(metrics, n) = <<sumRet[n]>>

\* C11 (recovery without loss): a SetGauge / AddCounter call that has
\* returned nil has been applied; an attempt that is not applied leaves the
\* table as it was, an applied one adds exactly d to the counter of the
\* name (sets the gauge of the name to the value written), and the attempt
\* that ends in nil is applied and is the call's last.  So a call whose
\* first k-1 attempts fail unapplied and whose k-th succeeds is applied once.
C11_Recovery ==
  /\ [](\A p \in Callers :
          (Done(p) /\ call[p].op \in {"SetGauge", "AddCounter"}
             /\ call[p].err = NilErr) => call[p].applied >= 1)
  /\ [][\A p \in Callers :
          (call[p].pc = "exec" /\ call'[p] # call[p]
             /\ call[p].op \in {"SetGauge", "AddCounter"}) =>
            LET c == call[p]
                d == call'[p]
                before == getCounterMetric(metrics, c.name)
            IN /\ d.applied = c.applied => metrics' = metrics
               /\ (d.applied = c.applied + 1 /\ c.op = "AddCounter") =>
                    getCounterMetric(metrics', c.name) =
                      <<(IF before = <<>> THEN 0 ELSE before[1]) + c.arg[1]>>
               /\ (d.applied = c.applied + 1 /\ c.op = "SetGauge") =>
                    getGaugeMetric(metrics', c.name) = c.arg
               /\ (d.attempts = c.attempts + 1 /\ d.err = NilErr) =>
                    (d.pc = "done" /\ d.applied = c.applied + 1)]_vars

\* An AddCounter("a", 2) has returned nil on its third attempt, the first
\* two having failed unapplied, and the counter of "a" is 2.
C11_Witness ==
  \E p \in Callers :
    /\ Done(p) /\ call[p].op = "AddCounter" /\ call[p].name = "a"
    /\ call[p].arg = Ptr(2) /\ call[p].err = NilErr
    /\ call[p].attempts = 3 /\ call[p].applied = 1 /\ call[p].slept = 4
    /\ getCounterMetric(metrics, "a") = <<2>>

\* C12 (Close releases everything): once Close has been called on a store
\* New returned, it has returned, having attempted the release of the three
\* statements and of the pool once each, and its error is nil iff all four
\* succeeded and otherwise holds every release failure.
C12_CloseReleasesAll ==
  closePc # "open" =>
    /\ closePc = "closed"
    /\ [k \in DOMAIN released |-> released[k].res] = Resources
    /\ (closeRet = NilErr) = (\A k \in DOMAIN released : released[k].err = NilErr)
    /\ \A k \in DOMAIN released :
         released[k].err # NilErr =>
           \E j \in DOMAIN closeRet : <<closeRet[j]>> = released[k].err

\* C13 (construction outcomes): New calls ping, then the DDL, then the three
\* compilations, and stops at the first that fails.  A failed ping returns
\* the store and nil with nothing else attempted and no statement prepared;
\* a failed DDL or compilation returns an error and no store; a store with
\* prepared statements has all three, after ping, DDL and three compilations.
C13_Construction ==
  /\ [](newPc = "returned" =>
          /\ (newRet = "nil") = (newErr # NilErr)
          /\ newRet \in {"store", "nil"}
          /\ \E k \in 0..3 :
               boot = SubSeq(<<"ping", "ddl", "prepare", "prepare", "prepare">>, 1, k + 2)
                 \/ boot = <<"ping">>
          /\ boot = <<"ping">> =>
               (newRet = "store" /\ prepares = {} /\ ~tableExists)
          /\ (newRet = "store" /\ boot # <<"ping">>) =>
               /\ prepares = StmtNames
               /\ tableExists
               /\ boot = <<"ping", "ddl", "prepare", "prepare", "prepare">>
          /\ newRet = "nil" => Len(boot) \in 2..5)
  /\ [][(newPc # "returned" /\ newPc' = "returned") =>
          \* the database call of this step is the one that decides
          IF dbUp
            THEN newRet' = "store" /\ newPc = "prepares"
            ELSE IF newPc = "ping" THEN newRet' = "store" /\ newErr' = NilErr
                 ELSE newRet' = "nil" /\ newErr' # NilErr]_vars

\* Ping and DDL have succeeded, two statements are compiled, the third
\* compilation has failed: New has returned an error and no store.
C13_Witness ==
  /\ newPc = "returned"
  /\ newRet = "nil"
  /\ newErr # NilErr
  /\ boot = <<"ping", "ddl", "prepare", "prepare", "prepare">>
  /\ Cardinality(prepares) = 2

\* C14 (fresh attempt counter): a call starts at the first schedule entry
\* with no attempt made and no sleep, whatever the caller's previous call
\* and the other callers' calls have consumed; a running call's position
\* is that of its own attempts; a step of one caller leaves the others'
\* calls alone; no step changes the schedule [1, 3, 5].
C14_FreshAttemptCounter ==
  /\ [](schedule = <<1, 3, 5>>)
  /\ [](\A p \in Callers :
          /\ call[p].pc = "exec" => call[p].i = call[p].attempts + 1
          /\ call[p].pc = "sleep" => call[p].i = call[p].attempts)
  /\ [][/\ schedule' = schedule
        /\ \A p \in Callers :
             /\ (call[p].pc \in {"idle", "done"} /\ call'[p].pc = "exec") =>
                  /\ call'[p].i = 1
                  /\ call'[p].attempts = 0
                  /\ call'[p].slept = 0
             /\ call'[p] # call[p] =>
                  \A q \in Callers \ {p} : call'[q] = call[q]]_vars

\* One caller's call has used all three attempts and returned, and a third
\* call has just been started: it is at the first entry.
C14_Witness ==
  \E p, q \in Callers :
    /\ p # q /\ calls = 3
    /\ Done(p) /\ call[p].attempts = 3 /\ call[p].i = 3
    /\ call[q].pc = "exec" /\ call[q].attempts = 0 /\ call[q].i = 1

\* C16 (compiled once): after New has returned no step assigns a prepared
\* statement, so a store New built without reaching the database has none,
\* also when the database answers again.
C16_CompiledOnce ==
  /\ [][newPc = "returned" => prepares' = prepares]_vars
  /\ [](newPc = "returned" /\ boot = <<"ping">> => prepares = {})

\* The store was built while the database was unreachable; the database is
\* back, a Ping has returned nil, and there is still no prepared statement.
C16_Witness ==
  /\ newPc = "returned" /\ boot = <<"ping">> /\ dbUp
  /\ prepares = {}
  /\ \E p \in Callers :
       Done(p) /\ call[p].op = "Ping" /\ call[p].err = NilErr

\* C15 (error classification): parseRetriableError answers false for nil,
\* true for an error that wraps a net.OpError, true for an engine error of
\* SQLSTATE class 08, false for every other error, and returns a detail
\* exactly when it answers true.
C15_Classification ==
  clsOut # <<>> =>
    LET r == clsOut[1]
    IN /\ clsIn = NilErr => ~r.ok
       /\ (\E k \in DOMAIN clsIn : clsIn[k].type = "net.OpError") => r.ok
       /\ r.ok = ConnectivityFault(clsIn)
       /\ (r.detail # <<>>) = r.ok

\* A connection failure of the engine wrapped twice has been classified
\* retriable, with a detail.
C15_Witness ==
  /\ clsIn = Wrap(2, ConnectionFailure)
  /\ clsOut # <<>>
  /\ clsOut[1].ok
  /\ clsOut[1].detail = <<"pgconn.PgError">>

\* C17 (store faults reach the caller): a handler that has called SetGauge
\* or AddCounter and responded 200 got a nil error from that call, and the
\* write was applied.
C17_FaultsReachCaller ==
  \A p \in Callers :
    (req[p].status = StatusOK /\ req[p].stores # <<>>) =>
      (req[p].werr = NilErr /\ req[p].wapplied >= 1)

\* C18 (rejected requests leave the store unchanged): an UpdateByURI request
\* with a wrong content type (400), an empty name (404), a type other than
\* gauge / counter (400) or a value that is no float (gauge) / no integer
\* (counter) (400) is answered without a Store call; an accepted one makes
\* exactly one Store call, SetGauge for gauge and AddCounter for counter, on
\* its name, and responds 200 after the call has returned.  The step that
\* answers a rejected request changes neither the table nor any Store call,
\* and the table changes only in the Store call of an accepted request.
C18_RejectedUnchanged ==
  /\ [](\A p \in Callers :
          req[p].h = "UpdateByURI" =>
            LET r == req[p]
                accepted ==
                  /\ r.ctypeOk
                  /\ r.name # ""
                  /\ \/ r.mtype = "gauge" /\ r.value \in {"1", "2", "1e0"}
                     \/ r.mtype = "counter" /\ r.value \in {"1", "2"}
            IN /\ ~accepted =>
                    /\ r.pc = "responded"
                    /\ r.stores = <<>>
                    /\ r.status = IF r.ctypeOk /\ r.name = "" THEN 404 ELSE 400
               /\ accepted =>
                    /\ Len(r.stores) = 1
                    /\ r.stores[1][1] =
                         IF r.mtype = "gauge" THEN "SetGauge" ELSE "AddCounter"
                    /\ r.stores[1][2] = r.name
                    /\ r.pc = "responded" =>
                         (r.status = 200 /\ call[p].pc = "done"))
  /\ [][/\ \A p \in Callers :
             (req'[p] # req[p] /\ req'[p].h = "UpdateByURI"
                /\ req'[p].stores = <<>>) =>
               (metrics' = metrics /\ call' = call)
        /\ metrics' # metrics =>
             \E p \in Callers :
               /\ call'[p] # call[p]
               /\ req[p].pc = "write"
               /\ req[p].stores # <<>>]_vars

\* One request with counter value "1e0" has been answered 400 without a
\* Store call; another with gauge value "1e0" has been answered 200 after
\* one SetGauge, and the gauge is 1.
C18_Witness ==
  \E p, q \in Callers :
    /\ p # q
    /\ req[p].h = "UpdateByURI" /\ req[p].mtype = "counter"
    /\ req[p].value = "1e0" /\ req[p].status = 400 /\ req[p].stores = <<>>
    /\ req[q].h = "UpdateByURI" /\ req[q].mtype = "gauge"
    /\ req[q].value = "1e0" /\ req[q].status = 200
    /\ req[q].stores = <<<<"SetGauge", "a", Ptr(1)>>>>
    /\ getGaugeMetric(metrics, "a") = Ptr(1)

\* C19 (counter read-back): an UpdateByBody counter request with increment
\* d answers 200 with the value GetCounter returned, which is the counter
\* stored when the request arrived plus d plus the increments other
\* requests applied to the name before this request's read was answered
\* (plus d alone when there is no other writer); when GetCounter fails the
\* response carries d.
C19_ReadBack ==
  \A p \in Callers :
    (req[p].h = "UpdateByBody" /\ req[p].mtype = "counter"
       /\ req[p].pc = "responded" /\ req[p].status = StatusOK) =>
      IF req[p].rerr = NilErr
        THEN req[p].respDelta = Ptr(req[p].prev + req[p].delta[1] + req[p].others)
        ELSE req[p].respDelta = req[p].delta

====
